---- MODULE Spec2Model ----
(***************************************************************************)
(* OTP issuance / verification of the gym user-management service.         *)
(*                                                                         *)
(* Time is counted in minutes: every duration the code builds is           *)
(* time.Duration(n) * time.Minute, so one Tick is one minute and a TTL is  *)
(* the number of minutes a key still has to live.                          *)
(***************************************************************************)
EXTENDS Integers, Sequences, FiniteSets, TLC

(***************************************************************************)
(* Inputs                                                                  *)
(***************************************************************************)
\* An existing trainer's ID, an existing customer's ID, an existing gym
\* owner's ID, a contact address.
TrainerID == "aaaaaaaa-0000-4000-8000-000000000001"
CustomerID == "bbbbbbbb-0000-4000-8000-000000000002"
OwnerID == "cccccccc-0000-4000-8000-000000000003"
Phone == "+15551234567"

Targets == {TrainerID, CustomerID, Phone}

\* models.OTPTarget
OTPTargetGymOwner == "gym_owner"
OTPTargetTrainer == "trainer"
OTPTargetCustomer == "customer"
OTPTarget == {OTPTargetGymOwner, OTPTargetTrainer, OTPTargetCustomer}

\* The (target, targetType) pairs calls are made with: the calls of one run
\* are made with the pairs of one scenario.
Scenarios ==
    { {<<TrainerID, OTPTargetTrainer>>, <<CustomerID, OTPTargetCustomer>>},
      {<<Phone, OTPTargetCustomer>>},
      {<<CustomerID, OTPTargetTrainer>>},
      {<<CustomerID, OTPTargetGymOwner>>} }

\* Values of the environment variables LoadConfig reads ("" is unset:
\* os.Getenv returns "" for a variable that is not set).
EnvExpiryValues == {"1", "2"}
EnvRateLimitValues == {"0", "1"}
EnvDefaultValues == {"", "654321"}

Envs ==
    [ OTP_LENGTH : {""},
      OTP_EXPIRY_MINUTES : EnvExpiryValues,
      OTP_RATE_LIMIT : EnvRateLimitValues,
      OTP_DEFAULT : EnvDefaultValues ]

(***************************************************************************)
(* Configuration: config.LoadConfig                                        *)
(***************************************************************************)
\* strconv.Atoi on the strings the environment holds here.
AtoiOK(s) == s \in {"0", "1", "2", "3", "4", "5", "6"}

Atoi(s) ==
    CASE s = "0" -> 0
      [] s = "1" -> 1
      [] s = "2" -> 2
      [] s = "3" -> 3
      [] s = "4" -> 4
      [] s = "5" -> 5
      [] s = "6" -> 6
      [] OTHER -> 0

getEnvOrDefault(env, key, defaultValue) ==
    IF env[key] # "" THEN env[key] ELSE defaultValue

getEnvAsIntOrDefault(env, key, defaultValue) ==
    IF env[key] # "" /\ AtoiOK(env[key]) THEN Atoi(env[key]) ELSE defaultValue

DefaultLength == 6
DefaultExpiryMinutes == 5
DefaultRateLimit == 3

LoadConfig(env) ==
    [ Length |-> getEnvAsIntOrDefault(env, "OTP_LENGTH", DefaultLength),
      ExpiryMinutes |->
          getEnvAsIntOrDefault(env, "OTP_EXPIRY_MINUTES", DefaultExpiryMinutes),
      RateLimit |-> getEnvAsIntOrDefault(env, "OTP_RATE_LIMIT", DefaultRateLimit),
      DefaultOTP |-> getEnvOrDefault(env, "OTP_DEFAULT", "123456") ]

(***************************************************************************)
(* State                                                                   *)
(***************************************************************************)
VARIABLES
    requests,   \* the scenario: the (target, targetType) pairs of this run's calls
    config,     \* config.Config.OTP of the running service
    redis,      \* the Redis keyspace behind cache.RedisClient: key -> [val, ttl]
    trainers,   \* trainers table: id -> [IsActive]
    customers,  \* customers table: id -> [IsActive]
    gymOwners,  \* gym_owners table: id -> [IsActive]
    consumed,   \* (target, targetType, code) triples verified with success since
                \* the last GenerateOTP call for the target
    expired,    \* (target, targetType, stored value) of the codes Redis evicted
                \* by TTL, until a code is stored for the pair again
    otps,       \* the otps table: the durable OTP records
    limiter,    \* the redisRateLimiter's fields: [prefix, limit, window]
    procs,      \* the VerifyOTP calls that run concurrently: position and locals
    last        \* the call that completed last and what it returned

vars == <<requests, config, gymOwners, redis, trainers, customers, consumed, expired, otps, limiter,
          procs, last>>

(***************************************************************************)
(* cache.RedisClient (redisClient)                                         *)
(***************************************************************************)
\* TTL of a key that never expires (what Redis reports for it).
NoTTL == -1

\* json.Marshal of a Go string of digits: the string in double quotes.
Marshal(value) == "\"" \o value \o "\""

\* redisClient.Set: the value is JSON-encoded, then SET key data [EX ttl].
\* go-redis sends an expiry only for expiration > 0; otherwise the key is
\* stored without one.
RedisSet(r, key, value, expiration) ==
    [k \in (DOMAIN r) \cup {key} |->
        IF k = key
        THEN [val |-> Marshal(value),
              ttl |-> IF expiration > 0 THEN expiration ELSE NoTTL]
        ELSE r[k]]

\* redisClient.Get: the raw stored bytes; redis.Nil becomes ("", nil).
RedisGet(r, key) == IF key \in DOMAIN r THEN r[key].val ELSE ""

\* redisClient.Delete: DEL key; deleting an absent key is not an error.
RedisDelete(r, key) == [k \in (DOMAIN r) \ {key} |-> r[k]]

\* redisClient.Exists
RedisExists(r, key) == key \in DOMAIN r

\* The keys Redis evicts when one minute passes.
Evicted(r) == {k \in DOMAIN r : r[k].ttl = 1}

\* One minute passes in Redis: keys whose TTL runs out are evicted.
RedisExpire(r) ==
    [k \in (DOMAIN r) \ Evicted(r) |->
        IF r[k].ttl = NoTTL THEN r[k] ELSE [r[k] EXCEPT !.ttl = @ - 1]]

(***************************************************************************)
(* service.OTPService                                                      *)
(***************************************************************************)
OTPKey(targetType, target) == "otp:" \o targetType \o ":" \o target
RateLimitKey(target) == "otp:ratelimit:" \o target

\* The strings of digits rand.Intn draws when no override is configured.
RandomDigits == {"111111", "222222"}

\* OTPService.generateRandomOTP: the values it can return.
generateRandomOTP(cfg) ==
    IF cfg.DefaultOTP # "" THEN {cfg.DefaultOTP} ELSE RandomDigits

\* uuid.Parse accepts the 36-character form the IDs are written in.
UUIDLen == 36
IsUUID(s) == Len(s) = UUIDLen

\* A completed call: its arguments, the call in it that returned an error
\* (failed), the code it took or returned (otp) and its result.
Call(op, target, targetType, otp, failed, res) ==
    [op |-> op, target |-> target, tt |-> targetType, otp |-> otp,
     failed |-> failed, res |-> res]

NoCall == Call("none", "", "", "", "none", "")

\* No rate limiter constructed, no verification in flight.
NoLimiter == [prefix |-> "", limit |-> 0, window |-> 0]
Procs == {1, 2}
Idle == [pc |-> "idle", target |-> "", tt |-> "", otp |-> "", stored |-> "", res |-> ""]

Init ==
    /\ requests \in Scenarios
    /\ \E env \in Envs : config = LoadConfig(env)
    /\ redis = <<>>
    /\ trainers = [id \in {TrainerID} |-> [IsActive |-> FALSE]]
    /\ customers = [id \in {CustomerID} |-> [IsActive |-> FALSE]]
    /\ gymOwners = [id \in {OwnerID} |-> [IsActive |-> FALSE]]
    /\ consumed = {}
    /\ expired = {}
    /\ otps = {}
    /\ limiter = NoLimiter
    /\ procs = [p \in Procs |-> Idle]
    /\ last = NoCall

\* The call of GenerateOTP that returns an error, if one does: the function
\* returns at the first failing call, so at most one failure is observed.
GenerateFaults == {"none", "Exists", "SetOTP", "SetRateLimit"}

\* The call of VerifyOTP that returns an error, if one does.
VerifyFaults == {"none", "Get", "Delete", "GetByID", "Update"}

\* generateOTP with the code stored before the rate-limit marker is looked at.
generateOTP_StoreFirst(r, cfg, target, targetType, otp, fault) ==
    LET rateLimitKey == RateLimitKey(target)
        stored == RedisSet(r, OTPKey(targetType, target), otp, cfg.ExpiryMinutes)
        Fail(rr, failed, res) ==
            [redis |-> rr, otp |-> "", failed |-> failed, res |-> res]
    IN  IF fault = "SetOTP" THEN Fail(r, "SetOTP", "RedisError")
        ELSE IF fault = "Exists" THEN Fail(stored, "Exists", "RedisError")
        ELSE IF RedisExists(r, rateLimitKey)
        THEN Fail(stored, "none", "models.ErrOTPExpired")
        ELSE IF fault = "SetRateLimit"
        THEN Fail(stored, "SetRateLimit", "RedisError")
        ELSE [redis |-> RedisSet(stored, rateLimitKey, "1", cfg.RateLimit),
              otp |-> otp, failed |-> "none", res |-> "ok"]

\* OTPService.GenerateOTP: the keyspace it leaves, the code and the error it
\* returns ("ok" for nil); fault names the cache call that returns an error
\* when it is made, failed the call that did.
generateOTP(r, cfg, target, targetType, otp, fault) ==
    LET rateLimitKey == RateLimitKey(target)
        otpKey == OTPKey(targetType, target)
        stored == RedisSet(r, otpKey, otp, cfg.ExpiryMinutes)
        Fail(rr, failed, res) ==
            [redis |-> rr, otp |-> "", failed |-> failed, res |-> res]
    IN  IF fault = "Exists" THEN Fail(r, "Exists", "RedisError")
        ELSE IF RedisExists(r, rateLimitKey)
        THEN Fail(r, "none", "models.ErrOTPExpired")
        ELSE IF fault = "SetOTP" THEN Fail(r, "SetOTP", "RedisError")
        ELSE IF fault = "SetRateLimit"
        THEN Fail(stored, "SetRateLimit", "RedisError")
        ELSE [redis |-> RedisSet(stored, rateLimitKey, "1", cfg.RateLimit),
              otp |-> otp, failed |-> "none", res |-> "ok"]

GenerateOTP(target, targetType, fault) ==
    \E otp \in generateRandomOTP(config) :
        LET out == generateOTP(redis, config, target, targetType, otp, fault)
        IN  /\ redis' = out.redis
            /\ last' = Call("GenerateOTP", target, targetType, out.otp, out.failed,
                         out.res)
            /\ consumed' = {c \in consumed : c[1] # target}
            /\ expired' = IF OTPKey(targetType, target) \in DOMAIN out.redis
                          THEN {e \in expired : <<e[1], e[2]>> # <<target, targetType>>}
                          ELSE expired
            /\ UNCHANGED <<requests, config, gymOwners, trainers, customers, otps, limiter, procs>>

\* OTPService.activateUser: the repository call that fails and the error
\* returned ("ok" for nil).
activateUser(tr, cu, userID, targetType, fault) ==
    IF targetType = OTPTargetTrainer
    THEN IF fault = "GetByID" THEN [failed |-> "GetByID", res |-> "DBError"]
         ELSE IF userID \notin DOMAIN tr
         THEN [failed |-> "none", res |-> "ErrTrainerNotFound"]
         ELSE IF fault = "Update" THEN [failed |-> "Update", res |-> "DBError"]
         ELSE [failed |-> "none", res |-> "ok"]
    ELSE IF fault = "GetByID" THEN [failed |-> "GetByID", res |-> "DBError"]
         ELSE IF userID \notin DOMAIN cu
         THEN [failed |-> "none", res |-> "gorm.ErrRecordNotFound"]
         ELSE IF fault = "Update" THEN [failed |-> "Update", res |-> "DBError"]
         ELSE [failed |-> "none", res |-> "ok"]

\* trainerRepo.Update / userRepo.Update of the record activateUser loaded and
\* set active.
activateTrainers(tr, userID, targetType, res) ==
    IF targetType = OTPTargetTrainer /\ res = "ok"
    THEN [tr EXCEPT ![userID].IsActive = TRUE]
    ELSE tr

activateCustomers(cu, userID, targetType, res) ==
    IF targetType # OTPTargetTrainer /\ res = "ok"
    THEN [cu EXCEPT ![userID].IsActive = TRUE]
    ELSE cu

\* verifyOTP with the stored code deleted before it is compared.
verifyOTP_DeleteFirst(r, tr, cu, target, targetType, otp, fault) ==
    LET otpKey == OTPKey(targetType, target)
        storedOTP == RedisGet(r, otpKey)
        deleted == RedisDelete(r, otpKey)
        Fail(rr, failed, res) ==
            [redis |-> rr, trainers |-> tr, customers |-> cu,
             failed |-> failed, res |-> res]
        act == activateUser(tr, cu, target, targetType, fault)
    IN  IF fault = "Get" THEN Fail(r, "Get", "RedisError")
        ELSE IF storedOTP = "" THEN Fail(r, "none", "models.ErrOTPExpired")
        ELSE IF fault = "Delete" THEN Fail(r, "Delete", "RedisError")
        ELSE IF storedOTP # otp THEN Fail(deleted, "none", "models.ErrInvalidOTP")
        ELSE IF ~IsUUID(target) THEN Fail(deleted, "none", "ParseError")
        ELSE [redis |-> deleted,
              trainers |-> activateTrainers(tr, target, targetType, act.res),
              customers |-> activateCustomers(cu, target, targetType, act.res),
              failed |-> act.failed, res |-> act.res]

\* OTPService.VerifyOTP: the keyspace and tables it leaves and the error it
\* returns ("ok" for true, nil); fault names the call that returns an error
\* when it is made, failed the call that did.
verifyOTP(r, tr, cu, target, targetType, otp, fault) ==
    LET otpKey == OTPKey(targetType, target)
        storedOTP == RedisGet(r, otpKey)
        Fail(failed, res) ==
            [redis |-> r, trainers |-> tr, customers |-> cu,
             failed |-> failed, res |-> res]
        act == activateUser(tr, cu, target, targetType, fault)
    IN  IF fault = "Get" THEN Fail("Get", "RedisError")
        ELSE IF storedOTP = "" THEN Fail("none", "models.ErrOTPExpired")
        ELSE IF storedOTP # otp THEN Fail("none", "models.ErrInvalidOTP")
        ELSE IF fault = "Delete" THEN Fail("Delete", "RedisError")
        ELSE IF ~IsUUID(target)
        THEN [redis |-> RedisDelete(r, otpKey), trainers |-> tr, customers |-> cu,
              failed |-> "none", res |-> "ParseError"]
        ELSE [redis |-> RedisDelete(r, otpKey),
              trainers |-> activateTrainers(tr, target, targetType, act.res),
              customers |-> activateCustomers(cu, target, targetType, act.res),
              failed |-> act.failed, res |-> act.res]

VerifyOTP(target, targetType, otp, fault) ==
    LET out == verifyOTP(redis, trainers, customers, target, targetType, otp, fault)
    IN  /\ redis' = out.redis
        /\ trainers' = out.trainers
        /\ customers' = out.customers
        /\ last' = Call("VerifyOTP", target, targetType, otp, out.failed, out.res)
        /\ consumed' = IF out.res = "ok"
                       THEN consumed \cup {<<target, targetType, otp>>}
                       ELSE consumed
        /\ UNCHANGED <<requests, config, gymOwners, expired, otps, limiter, procs>>

\* One minute passes.
Tick ==
    /\ redis' = RedisExpire(redis)
    /\ expired' = expired \cup
          { <<rq[1], rq[2], redis[OTPKey(rq[2], rq[1])].val>> :
              rq \in {x \in requests : OTPKey(x[2], x[1]) \in Evicted(redis)} }
    /\ last' = Call("Tick", "", "", "", "none", "")
    /\ UNCHANGED <<requests, config, gymOwners, trainers, customers, consumed, otps, limiter,
                   procs>>

\* The codes a caller submits: the code GenerateOTP returns, the value the
\* cache holds for it, and a wrong code.
SubmittedCodes ==
    {config.DefaultOTP, Marshal(config.DefaultOTP), "000000"}

Next ==
    \/ \E rq \in requests, fault \in GenerateFaults :
          GenerateOTP(rq[1], rq[2], fault)
    \/ \E rq \in requests, otp \in SubmittedCodes, fault \in VerifyFaults :
          VerifyOTP(rq[1], rq[2], otp, fault)
    \/ Tick

Spec == Init /\ [][Next]_vars

(***************************************************************************)
(* service.redisRateLimiter                                                *)
(***************************************************************************)
\* strconv.Itoa / the decimal string Redis stores for a counter.
Itoa(n) ==
    CASE n = 0 -> "0"
      [] n = 1 -> "1"
      [] n = 2 -> "2"
      [] n = 3 -> "3"
      [] n = 4 -> "4"
      [] n = 5 -> "5"
      [] OTHER -> "6"

\* redisClient.Incr: INCR key; an absent key counts from 0 and gets no TTL,
\* a present one keeps its TTL.
RedisIncr(r, key) ==
    [k \in (DOMAIN r) \cup {key} |->
        IF k = key
        THEN [val |-> Itoa(Atoi(RedisGet(r, key)) + 1),
              ttl |-> IF key \in DOMAIN r THEN r[key].ttl ELSE NoTTL]
        ELSE r[k]]

\* redisClient.Expire: EXPIRE key seconds; no effect on an absent key, and a
\* timeout that is not positive deletes the key.
RedisExpireKey(r, key, expiration) ==
    IF key \notin DOMAIN r THEN r
    ELSE IF expiration > 0 THEN [r EXCEPT ![key].ttl = expiration]
    ELSE RedisDelete(r, key)

\* The keys the limiter is asked about, and the limiters constructed.
LimiterKeys == {"a", "b"}
MaxCount == 3
Limiters == [prefix : {"rl:"}, limit : {0, 1, 2}, window : {1, 2}]

\* IsAllowed refusing the request when the read fails.
IsAllowedResult_FailClosed(lim, count, err) ==
    ~err /\ Atoi(count) < lim.limit

\* redisRateLimiter.IsAllowed: count and err are what client.Get returned.
IsAllowedResult(lim, count, err) ==
    IF err THEN TRUE ELSE Atoi(count) < lim.limit

IsAllowed(key, getErr) ==
    /\ last' = Call("IsAllowed", key, "", "", IF getErr THEN "Get" ELSE "none",
                    IF IsAllowedResult(limiter,
                                       IF getErr THEN ""
                                       ELSE RedisGet(redis, limiter.prefix \o key),
                                       getErr)
                    THEN "true" ELSE "false")
    /\ UNCHANGED <<requests, config, gymOwners, redis, trainers, customers, consumed,
                   expired, otps, limiter, procs>>

\* redisRateLimiter.Increment: Incr, then Expire, both errors dropped.
Increment(key, incrErr, expireErr) ==
    LET k == limiter.prefix \o key
        counted == IF incrErr THEN redis ELSE RedisIncr(redis, k)
    IN  /\ Atoi(RedisGet(redis, k)) < MaxCount
        /\ redis' = IF expireErr THEN counted
                    ELSE RedisExpireKey(counted, k, limiter.window)
        /\ last' = Call("Increment", key, "", "",
                        IF incrErr THEN "Incr"
                        ELSE IF expireErr THEN "Expire" ELSE "none", "")
        /\ UNCHANGED <<requests, config, gymOwners, trainers, customers, consumed, expired,
                       otps, limiter, procs>>

InitRL ==
    /\ requests = {}
    /\ config = LoadConfig([OTP_LENGTH |-> "", OTP_EXPIRY_MINUTES |-> "",
                            OTP_RATE_LIMIT |-> "", OTP_DEFAULT |-> ""])
    /\ redis = <<>>
    /\ trainers = [id \in {TrainerID} |-> [IsActive |-> FALSE]]
    /\ customers = [id \in {CustomerID} |-> [IsActive |-> FALSE]]
    /\ gymOwners = [id \in {OwnerID} |-> [IsActive |-> FALSE]]
    /\ consumed = {}
    /\ expired = {}
    /\ otps = {}
    /\ limiter \in Limiters
    /\ procs = [p \in Procs |-> Idle]
    /\ last = NoCall

NextRL ==
    \/ \E key \in LimiterKeys, getErr \in BOOLEAN : IsAllowed(key, getErr)
    \/ \E key \in LimiterKeys, incrErr, expireErr \in BOOLEAN :
          Increment(key, incrErr, expireErr)
    \/ Tick

SpecRL == InitRL /\ [][NextRL]_vars

(***************************************************************************)
(* OTPService.VerifyOTP, call by call, for calls that run concurrently     *)
(***************************************************************************)
Done(pr, res) == [pr EXCEPT !.pc = "done", !.res = res]

\* A caller enters VerifyOTP.
CallVerifyOTP(p, target, targetType, otp) ==
    /\ procs[p].pc = "idle"
    /\ procs' = [procs EXCEPT ![p] =
                    [pc |-> "get", target |-> target, tt |-> targetType,
                     otp |-> otp, stored |-> "", res |-> ""]]
    /\ UNCHANGED <<requests, config, gymOwners, redis, trainers, customers, consumed,
                   expired, otps, limiter, last>>

\* redisClient.Get of the code and the two comparisons that follow it.
VerifyGet(p, getErr) ==
    LET pr == procs[p]
        storedOTP == RedisGet(redis, OTPKey(pr.tt, pr.target))
    IN  /\ pr.pc = "get"
        /\ procs' = [procs EXCEPT ![p] =
              IF getErr THEN Done(pr, "RedisError")
              ELSE IF storedOTP = ""
              THEN Done([pr EXCEPT !.stored = storedOTP], "models.ErrOTPExpired")
              ELSE IF storedOTP # pr.otp
              THEN Done([pr EXCEPT !.stored = storedOTP], "models.ErrInvalidOTP")
              ELSE [pr EXCEPT !.stored = storedOTP, !.pc = "delete"]]
        /\ UNCHANGED <<requests, config, gymOwners, redis, trainers, customers, consumed,
                       expired, otps, limiter, last>>

\* redisClient.Delete of the code, then uuid.Parse of the target.
VerifyDelete(p, delErr) ==
    LET pr == procs[p]
    IN  /\ pr.pc = "delete"
        /\ redis' = IF delErr THEN redis
                    ELSE RedisDelete(redis, OTPKey(pr.tt, pr.target))
        /\ procs' = [procs EXCEPT ![p] =
              IF delErr THEN Done(pr, "RedisError")
              ELSE IF ~IsUUID(pr.target) THEN Done(pr, "ParseError")
              ELSE [pr EXCEPT !.pc = "activate"]]
        /\ UNCHANGED <<requests, config, gymOwners, trainers, customers, consumed, expired,
                       otps, limiter, last>>

\* activateUser.
VerifyActivate(p, fault) ==
    LET pr == procs[p]
        act == activateUser(trainers, customers, pr.target, pr.tt, fault)
    IN  /\ pr.pc = "activate"
        /\ trainers' = activateTrainers(trainers, pr.target, pr.tt, act.res)
        /\ customers' = activateCustomers(customers, pr.target, pr.tt, act.res)
        /\ procs' = [procs EXCEPT ![p] = Done(pr, act.res)]
        /\ UNCHANGED <<requests, config, gymOwners, redis, consumed, expired, otps, limiter,
                       last>>

\* The call returns to its caller.
VerifyReturn(p) ==
    LET pr == procs[p]
    IN  /\ pr.pc = "done"
        /\ procs' = [procs EXCEPT ![p] = Idle]
        /\ last' = Call("VerifyOTP", pr.target, pr.tt, pr.otp, "none", pr.res)
        /\ UNCHANGED <<requests, config, gymOwners, redis, trainers, customers, consumed,
                       expired, otps, limiter>>

\* A code is issued while no verification is in flight.
IssueOTP(target, targetType) ==
    /\ \A p \in Procs : procs[p].pc = "idle"
    /\ GenerateOTP(target, targetType, "none")

InitConc ==
    /\ requests = {<<CustomerID, OTPTargetCustomer>>}
    /\ \E env \in Envs : config = LoadConfig(env)
    /\ redis = <<>>
    /\ trainers = [id \in {TrainerID} |-> [IsActive |-> FALSE]]
    /\ customers = [id \in {CustomerID} |-> [IsActive |-> FALSE]]
    /\ gymOwners = [id \in {OwnerID} |-> [IsActive |-> FALSE]]
    /\ consumed = {}
    /\ expired = {}
    /\ otps = {}
    /\ limiter = NoLimiter
    /\ procs = [p \in Procs |-> Idle]
    /\ last = NoCall

NextConc ==
    \/ \E rq \in requests : IssueOTP(rq[1], rq[2])
    \/ \E p \in Procs, rq \in requests, otp \in SubmittedCodes :
          CallVerifyOTP(p, rq[1], rq[2], otp)
    \/ \E p \in Procs, getErr \in BOOLEAN : VerifyGet(p, getErr)
    \/ \E p \in Procs, delErr \in BOOLEAN : VerifyDelete(p, delErr)
    \/ \E p \in Procs, fault \in {"none", "GetByID", "Update"} :
          VerifyActivate(p, fault)
    \/ \E p \in Procs : VerifyReturn(p)
    \/ Tick

SpecConc == InitConc /\ [][NextConc]_vars

(***************************************************************************)
(* OTPService.GenerateOTP, call by call, for calls that run concurrently   *)
(***************************************************************************)
\* A caller enters GenerateOTP.
CallGenerateOTP(p, target, targetType) ==
    /\ procs[p].pc = "idle"
    /\ procs' = [procs EXCEPT ![p] =
                    [pc |-> "exists", target |-> target, tt |-> targetType,
                     otp |-> "", stored |-> "", res |-> ""]]
    /\ UNCHANGED <<requests, config, gymOwners, redis, trainers, customers,
                   consumed, expired, otps, limiter, last>>

\* redisClient.Exists of the marker, then generateRandomOTP.
GenerateExists(p, existsErr) ==
    LET pr == procs[p]
    IN  /\ pr.pc = "exists"
        /\ \E otp \in generateRandomOTP(config) :
              procs' = [procs EXCEPT ![p] =
                  IF existsErr THEN Done(pr, "RedisError")
                  ELSE IF RedisExists(redis, RateLimitKey(pr.target))
                  THEN Done(pr, "models.ErrOTPExpired")
                  ELSE [pr EXCEPT !.otp = otp, !.pc = "setotp"]]
        /\ UNCHANGED <<requests, config, gymOwners, redis, trainers, customers,
                       consumed, expired, otps, limiter, last>>

\* redisClient.Set of the code.
GenerateSetOTP(p, setErr) ==
    LET pr == procs[p]
    IN  /\ pr.pc = "setotp"
        /\ redis' = IF setErr THEN redis
                    ELSE RedisSet(redis, OTPKey(pr.tt, pr.target), pr.otp,
                                  config.ExpiryMinutes)
        /\ procs' = [procs EXCEPT ![p] =
              IF setErr THEN Done([pr EXCEPT !.otp = ""], "RedisError")
              ELSE [pr EXCEPT !.pc = "setlimit"]]
        /\ UNCHANGED <<requests, config, gymOwners, trainers, customers, consumed,
                       expired, otps, limiter, last>>

\* redisClient.Set of the rate-limit marker.
GenerateSetRateLimit(p, setErr) ==
    LET pr == procs[p]
    IN  /\ pr.pc = "setlimit"
        /\ redis' = IF setErr THEN redis
                    ELSE RedisSet(redis, RateLimitKey(pr.target), "1",
                                  config.RateLimit)
        /\ procs' = [procs EXCEPT ![p] =
              IF setErr THEN Done([pr EXCEPT !.otp = ""], "RedisError")
              ELSE Done(pr, "ok")]
        /\ UNCHANGED <<requests, config, gymOwners, trainers, customers, consumed,
                       expired, otps, limiter, last>>

\* The call returns to its caller.
GenerateReturn(p) ==
    LET pr == procs[p]
    IN  /\ pr.pc = "done"
        /\ procs' = [procs EXCEPT ![p] = Idle]
        /\ last' = Call("GenerateOTP", pr.target, pr.tt, pr.otp, "none", pr.res)
        /\ UNCHANGED <<requests, config, gymOwners, redis, trainers, customers,
                       consumed, expired, otps, limiter>>

InitConcGen ==
    /\ requests = {<<CustomerID, OTPTargetCustomer>>}
    /\ \E env \in Envs : config = LoadConfig(env)
    /\ redis = <<>>
    /\ trainers = [id \in {TrainerID} |-> [IsActive |-> FALSE]]
    /\ customers = [id \in {CustomerID} |-> [IsActive |-> FALSE]]
    /\ gymOwners = [id \in {OwnerID} |-> [IsActive |-> FALSE]]
    /\ consumed = {}
    /\ expired = {}
    /\ otps = {}
    /\ limiter = NoLimiter
    /\ procs = [p \in Procs |-> Idle]
    /\ last = NoCall

\* No time passes: all calls fall into one cooldown window.
NextConcGen ==
    \/ \E p \in Procs, rq \in requests : CallGenerateOTP(p, rq[1], rq[2])
    \/ \E p \in Procs, existsErr \in BOOLEAN : GenerateExists(p, existsErr)
    \/ \E p \in Procs, setErr \in BOOLEAN : GenerateSetOTP(p, setErr)
    \/ \E p \in Procs, setErr \in BOOLEAN : GenerateSetRateLimit(p, setErr)
    \/ \E p \in Procs : GenerateReturn(p)

SpecConcGen == InitConcGen /\ [][NextConcGen]_vars

(***************************************************************************)
(* service.GymOwnerService.VerifyOTP                                       *)
(***************************************************************************)
\* The call of GymOwnerService.VerifyOTP that returns an error, if one does.
GymOwnerVerifyFaults == {"none", "Get", "Delete"}

\* GymOwnerService.VerifyOTP: the keyspace it leaves and the error it returns
\* ("ok" for nil). The lookup and update of the owner are commented out in
\* the source; the Delete is logged only.
gymOwnerVerifyOTP(r, ownerID, otp, fault) ==
    LET key == "otp:gym_owner:" \o ownerID
        storedOTP == RedisGet(r, key)
    IN  IF fault = "Get"
        THEN [redis |-> r, failed |-> "Get", res |-> "service.ErrInvalidOTP"]
        ELSE IF storedOTP # otp
        THEN [redis |-> r, failed |-> "none", res |-> "service.ErrInvalidOTP"]
        ELSE IF fault = "Delete"
        THEN [redis |-> r, failed |-> "Delete", res |-> "ok"]
        ELSE [redis |-> RedisDelete(r, key), failed |-> "none", res |-> "ok"]

GymOwnerVerifyOTP(ownerID, otp, fault) ==
    LET out == gymOwnerVerifyOTP(redis, ownerID, otp, fault)
    IN  /\ redis' = out.redis
        /\ last' = Call("GymOwnerVerifyOTP", ownerID, OTPTargetGymOwner, otp,
                        out.failed, out.res)
        /\ UNCHANGED <<requests, config, gymOwners, trainers, customers, consumed,
                       expired, otps, limiter, procs>>

\* The codes a caller of the gym owner endpoint submits; the handler does not
\* validate the request, so the empty code is one of them.
GymOwnerSubmittedCodes == SubmittedCodes \cup {""}

InitGym ==
    /\ requests = {<<OwnerID, OTPTargetGymOwner>>}
    /\ \E env \in Envs : config = LoadConfig(env)
    /\ redis = <<>>
    /\ trainers = [id \in {TrainerID} |-> [IsActive |-> FALSE]]
    /\ customers = [id \in {CustomerID} |-> [IsActive |-> FALSE]]
    /\ gymOwners = [id \in {OwnerID} |-> [IsActive |-> FALSE]]
    /\ consumed = {}
    /\ expired = {}
    /\ otps = {}
    /\ limiter = NoLimiter
    /\ procs = [p \in Procs |-> Idle]
    /\ last = NoCall

NextGym ==
    \/ \E rq \in requests, fault \in GenerateFaults :
          GenerateOTP(rq[1], rq[2], fault)
    \/ \E rq \in requests, otp \in SubmittedCodes, fault \in VerifyFaults :
          VerifyOTP(rq[1], rq[2], otp, fault)
    \/ \E rq \in requests, otp \in GymOwnerSubmittedCodes,
          fault \in GymOwnerVerifyFaults :
          GymOwnerVerifyOTP(rq[1], otp, fault)
    \/ Tick

SpecGym == InitGym /\ [][NextGym]_vars

(***************************************************************************)
(* auth.GenerateOTP / auth.VerifyOTP, repository.OTPRepository, models.OTP *)
(***************************************************************************)
\* models.OTPType
OTPTypeEmail == "email"
OTPTypePhone == "phone"

\* The codes rand.Intn draws and callers submit.
AuthCodes == RandomDigits

\* cfg.OTP.Expiration of the configuration the auth package reads, in minutes.
AuthExpirations == {1, 2}

\* The number of OTP records a run creates, and the number of minutes a
\* record is followed past its expiry.
MaxOTPs == 2
MaxAge == 1

\* cache.Set / cache.Get / cache.Delete: the package-level client stores the
\* value as given; Get of an absent key returns the error redis.Nil.
CacheSet(r, key, value, expiration) ==
    [k \in (DOMAIN r) \cup {key} |->
        IF k = key
        THEN [val |-> value, ttl |-> IF expiration > 0 THEN expiration ELSE NoTTL]
        ELSE r[k]]

CacheGetErr(r, key, fault) == fault = "Get" \/ key \notin DOMAIN r

AuthKey(userID, otpType) == "otp:" \o userID \o ":" \o otpType

\* A record of the otps table; left is ExpiresAt - now in minutes.
OTPRecord(id, userID, code, otpType, left) ==
    [ID |-> id, UserID |-> userID, Code |-> code, Type |-> otpType,
     Used |-> FALSE, left |-> left]

\* OTP.IsExpired: time.Now().After(o.ExpiresAt).
IsExpired(o) == o.left < 0

\* OTP.IsValid
IsValid(o) == ~IsExpired(o) /\ ~o.Used

\* The rows of "user_id = ? AND type = ? AND used = false AND expires_at > now".
ValidRows(db, userID, otpType) ==
    {o \in db : o.UserID = userID /\ o.Type = otpType /\ ~o.Used /\ o.left > 0}

\* OTPRepository.GetByUserIDAndType: the newest valid row, if there is one.
GetByUserIDAndType(db, userID, otpType) ==
    {o \in ValidRows(db, userID, otpType) :
        \A q \in ValidRows(db, userID, otpType) : q.ID <= o.ID}

\* The calls of auth.GenerateOTP and auth.VerifyOTP that can return an error.
AuthGenerateFaults == {"none", "Create", "Set"}
AuthVerifyFaults == {"none", "Get", "Query", "Update", "Delete"}

\* auth.GenerateOTP: the table and keyspace it leaves, the code and error it
\* returns.
authGenerateOTP(r, db, expiration, userID, otpType, code, fault) ==
    LET created == db \cup {OTPRecord(Cardinality(db) + 1, userID, code, otpType,
                                      expiration)}
    IN  IF fault = "Create"
        THEN [redis |-> r, otps |-> db, otp |-> "", failed |-> "Create",
              res |-> "failed to save OTP"]
        ELSE IF fault = "Set"
        THEN [redis |-> r, otps |-> created, otp |-> code, failed |-> "Set",
              res |-> "ok"]
        ELSE [redis |-> CacheSet(r, AuthKey(userID, otpType), code, expiration),
              otps |-> created, otp |-> code, failed |-> "none", res |-> "ok"]

\* auth.markOTPAsUsed: the update is by (user_id, code, type) and is not
\* conditional on used; the cache key is deleted only after the update.
markOTPAsUsed(r, db, userID, code, otpType, fault) ==
    IF fault = "Update" THEN [redis |-> r, otps |-> db, failed |-> "Update"]
    ELSE [redis |-> IF fault = "Delete" THEN r
                    ELSE RedisDelete(r, AuthKey(userID, otpType)),
          otps |-> {IF o.UserID = userID /\ o.Code = code /\ o.Type = otpType
                    THEN [o EXCEPT !.Used = TRUE] ELSE o : o \in db},
          failed |-> IF fault = "Delete" THEN "Delete" ELSE "none"]

\* auth.VerifyOTP
authVerifyOTP(r, db, userID, code, otpType, fault) ==
    LET key == AuthKey(userID, otpType)
        marked == markOTPAsUsed(r, db, userID, code, otpType, fault)
        found == {o \in db : /\ o.UserID = userID /\ o.Code = code
                             /\ o.Type = otpType /\ ~o.Used /\ o.left > 0}
    IN  IF ~CacheGetErr(r, key, fault) /\ r[key].val = code
        THEN [redis |-> marked.redis, otps |-> marked.otps,
              failed |-> marked.failed, res |-> "ok"]
        ELSE IF fault = "Query"
        THEN [redis |-> r, otps |-> db, failed |-> "Query",
              res |-> "invalid or expired OTP"]
        ELSE IF found = {}
        THEN [redis |-> r, otps |-> db,
              failed |-> IF fault = "Get" THEN "Get" ELSE "none",
              res |-> "invalid or expired OTP"]
        ELSE [redis |-> marked.redis, otps |-> marked.otps,
              failed |-> IF fault = "Get" THEN "Get" ELSE marked.failed,
              res |-> "ok"]

AuthGenerateOTP(userID, otpType, code, fault) ==
    LET out == authGenerateOTP(redis, otps, config.Expiration, userID, otpType,
                               code, fault)
    IN  /\ Cardinality(otps) < MaxOTPs
        /\ redis' = out.redis
        /\ otps' = out.otps
        /\ last' = Call("AuthGenerateOTP", userID, otpType, out.otp, out.failed,
                        out.res)
        /\ UNCHANGED <<requests, config, gymOwners, trainers, customers, consumed,
                       expired, limiter, procs>>

AuthVerifyOTP(userID, code, otpType, fault) ==
    LET out == authVerifyOTP(redis, otps, userID, code, otpType, fault)
    IN  /\ redis' = out.redis
        /\ otps' = out.otps
        /\ last' = Call("AuthVerifyOTP", userID, otpType, code, out.failed, out.res)
        /\ UNCHANGED <<requests, config, gymOwners, trainers, customers, consumed,
                       expired, limiter, procs>>

\* OTPRepository.MarkAsUsed(id): an update by id, not conditional on used;
\* only the statement's error is returned.
MarkAsUsed(id, fault) ==
    /\ \E o \in otps : o.ID = id
    /\ otps' = IF fault THEN otps
               ELSE {IF o.ID = id THEN [o EXCEPT !.Used = TRUE] ELSE o : o \in otps}
    /\ last' = Call("MarkAsUsed", Itoa(id), "", "",
                    IF fault THEN "Update" ELSE "none",
                    IF fault THEN "DBError" ELSE "ok")
    /\ UNCHANGED <<requests, config, gymOwners, redis, trainers, customers,
                   consumed, expired, limiter, procs>>

\* One minute passes for the cache and for the records.
TickAuth ==
    /\ redis' = RedisExpire(redis)
    /\ otps' = {[o EXCEPT !.left = IF @ > -MaxAge THEN @ - 1 ELSE @] : o \in otps}
    /\ last' = Call("Tick", "", "", "", "none", "")
    /\ UNCHANGED <<requests, config, gymOwners, trainers, customers, consumed,
                   expired, limiter, procs>>

InitAuth ==
    /\ requests = {<<CustomerID, OTPTargetCustomer>>}
    /\ \E e \in AuthExpirations : config = [Expiration |-> e]
    /\ redis = <<>>
    /\ trainers = [id \in {TrainerID} |-> [IsActive |-> FALSE]]
    /\ customers = [id \in {CustomerID} |-> [IsActive |-> FALSE]]
    /\ gymOwners = [id \in {OwnerID} |-> [IsActive |-> FALSE]]
    /\ consumed = {}
    /\ expired = {}
    /\ otps = {}
    /\ limiter = NoLimiter
    /\ procs = [p \in Procs |-> Idle]
    /\ last = NoCall

NextAuth ==
    \/ \E rq \in requests, code \in AuthCodes, fault \in AuthGenerateFaults :
          AuthGenerateOTP(rq[1], OTPTypeEmail, code, fault)
    \/ \E rq \in requests, code \in AuthCodes, fault \in AuthVerifyFaults :
          AuthVerifyOTP(rq[1], code, OTPTypeEmail, fault)
    \/ \E rq \in requests, code \in AuthCodes :
          VerifyOTP(rq[1], rq[2], code, "none")
    \/ \E id \in 1..MaxOTPs, fault \in BOOLEAN : MarkAsUsed(id, fault)
    \/ TickAuth

SpecAuth == InitAuth /\ [][NextAuth]_vars

(***************************************************************************)
(* HTTP handlers: POST /otp/send, POST /otp/verify, DELETE /customers/:id  *)
(***************************************************************************)
\* A completed request: the handler, its inputs (the bearer token's kind and
\* the user it names in user), the service call that returned an error
\* (failed), the service's result (res) and the response status.
Response(op, target, targetType, otp, token, failed, res, status) ==
    [op |-> op, target |-> target, tt |-> targetType, otp |-> otp,
     token |-> token.kind, user |-> token.UserID,
     failed |-> failed, res |-> res, status |-> status]

NoToken == [kind |-> "missing", UserID |-> ""]

\* The two sentinels of package models the handler tests with errors.Is, and
\* the status it answers: models.ErrOTPInvalid is a different value from the
\* models.ErrInvalidOTP the service returns.
verifyStatus(res) ==
    IF res = "ok" THEN "200 OTP verified successfully"
    ELSE IF res = "models.ErrOTPExpired" THEN "400 OTP has expired"
    ELSE IF res = "models.ErrOTPInvalid" THEN "400 Invalid OTP"
    ELSE "500 Failed to verify OTP"

\* validator tags of models.VerifyOTPRequest: user_id uuid, otp len=6.
OTPLen == 6
validVerifyOTPRequest(userID, otp) ==
    IsUUID(userID) /\ Len(otp) = OTPLen

\* validator tag of models.SendOTPRequest.Type: oneof=email phone.
validSendOTPRequest(sendType) ==
    sendType \in {OTPTypeEmail, OTPTypePhone}

\* OTPHandler.SendOTP
OTPHandlerSendOTP(sendType, target, targetType, fault) ==
    \E otp \in generateRandomOTP(config) :
        LET out == generateOTP(redis, config, target, targetType, otp, fault)
        IN  IF ~validSendOTPRequest(sendType)
            THEN /\ last' = Response("OTPHandler.SendOTP", target, targetType, "",
                                     NoToken, "none", "", "400 validation")
                 /\ UNCHANGED <<requests, config, gymOwners, redis, trainers,
                                customers, consumed, expired, otps, limiter, procs>>
            ELSE /\ redis' = out.redis
                 /\ last' = Response("OTPHandler.SendOTP", target, targetType,
                                     out.otp, NoToken, out.failed, out.res,
                                     IF out.res = "ok" THEN "200 OTP sent successfully"
                                     ELSE "500 Failed to generate OTP")
                 /\ UNCHANGED <<requests, config, gymOwners, trainers, customers,
                                consumed, expired, otps, limiter, procs>>

\* OTPHandler.VerifyOTP
OTPHandlerVerifyOTP(userID, userType, otp, fault) ==
    LET out == verifyOTP(redis, trainers, customers, userID, userType, otp, fault)
    IN  IF ~validVerifyOTPRequest(userID, otp)
        THEN /\ last' = Response("OTPHandler.VerifyOTP", userID, userType, otp,
                                 NoToken, "none", "", "400 validation")
             /\ UNCHANGED <<requests, config, gymOwners, redis, trainers, customers,
                            consumed, expired, otps, limiter, procs>>
        ELSE /\ redis' = out.redis
             /\ trainers' = out.trainers
             /\ customers' = out.customers
             /\ last' = Response("OTPHandler.VerifyOTP", userID, userType, otp,
                                 NoToken, out.failed, out.res, verifyStatus(out.res))
             /\ UNCHANGED <<requests, config, gymOwners, consumed, expired, otps,
                            limiter, procs>>

\* Bearer tokens presented: none, one ValidateToken rejects, and tokens
\* ValidateToken accepts with Claims.UserID set.
Tokens ==
    {NoToken, [kind |-> "invalid", UserID |-> ""]} \cup
    {[kind |-> "valid", UserID |-> u] : u \in {CustomerID, TrainerID}}

\* middleware.AuthMiddleware: the response it ends the request with ("" when
\* it calls c.Next()) and the request locals it leaves.
AuthMiddleware(token) ==
    IF token.kind = "missing"
    THEN [status |-> "401 missing authorization header", locals |-> <<>>]
    ELSE IF token.kind = "invalid"
    THEN [status |-> "401 invalid token", locals |-> <<>>]
    ELSE [status |-> "", locals |-> [k \in {"userID"} |-> token.UserID]]

\* customerRepo.Delete
deleteCustomer(cu, id) == [c \in DOMAIN cu \ {id} |-> cu[c]]

DeleteFaults == {"none", "GetByID", "Delete"}

\* CustomerHandler.DeleteCustomer on the locals the middleware left: the
\* status answered and the customers table. The type assertion on a local
\* that was never set panics; recover.New() turns the panic into a 500.
deleteCustomerHandler(cu, locals, id, fault) ==
    LET Answer(status, failed, table) ==
            [status |-> status, failed |-> failed, customers |-> table]
    IN  IF "user_id" \notin DOMAIN locals
        THEN Answer("500 panic: interface conversion", "none", cu)
        ELSE IF locals["user_id"] = "" THEN Answer("401 Unauthorized", "none", cu)
        ELSE IF ~IsUUID(id) THEN Answer("400 Invalid customer ID", "none", cu)
        ELSE IF fault = "GetByID" THEN Answer("404 Customer not found", "GetByID", cu)
        ELSE IF id \notin DOMAIN cu THEN Answer("404 Customer not found", "none", cu)
        ELSE IF locals["user_id"] # id
        THEN Answer("403 You can only delete your own account", "none", cu)
        ELSE IF fault = "Delete"
        THEN Answer("500 Failed to delete customer", "Delete", cu)
        ELSE Answer("200 Customer deleted successfully", "none",
                    deleteCustomer(cu, id))

\* DELETE /customers/:id: AuthMiddleware, then DeleteCustomer.
DeleteCustomerRequest(token, id, fault) ==
    LET mw == AuthMiddleware(token)
        out == deleteCustomerHandler(customers, mw.locals, id, fault)
    IN  IF mw.status # ""
        THEN /\ last' = Response("DeleteCustomer", id, "", "", token, "none", "",
                                 mw.status)
             /\ UNCHANGED <<requests, config, gymOwners, redis, trainers, customers,
                            consumed, expired, otps, limiter, procs>>
        ELSE /\ customers' = out.customers
             /\ last' = Response("DeleteCustomer", id, "", "", token, out.failed, "",
                                 out.status)
             /\ UNCHANGED <<requests, config, gymOwners, redis, trainers, consumed,
                            expired, otps, limiter, procs>>

\* The codes posted to /otp/verify: the code SendOTP answered, the value the
\* cache holds for it, and a wrong code.
HTTPSubmittedCodes ==
    generateRandomOTP(config) \cup
    {Marshal(otp) : otp \in generateRandomOTP(config)} \cup {"000000"}

SendTypes == {OTPTypeEmail, ""}
PathIDs == {CustomerID, TrainerID, "42"}

InitHTTP ==
    /\ requests = {<<CustomerID, OTPTargetCustomer>>, <<Phone, OTPTargetCustomer>>}
    /\ \E env \in Envs : config = LoadConfig(env)
    /\ redis = <<>>
    /\ trainers = [id \in {TrainerID} |-> [IsActive |-> FALSE]]
    /\ customers = [id \in {CustomerID} |-> [IsActive |-> FALSE]]
    /\ gymOwners = [id \in {OwnerID} |-> [IsActive |-> FALSE]]
    /\ consumed = {}
    /\ expired = {}
    /\ otps = {}
    /\ limiter = NoLimiter
    /\ procs = [p \in Procs |-> Idle]
    /\ last = NoCall

NextHTTP ==
    \/ \E sendType \in SendTypes, rq \in requests, fault \in GenerateFaults :
          OTPHandlerSendOTP(sendType, rq[1], rq[2], fault)
    \/ \E rq \in requests, otp \in HTTPSubmittedCodes, fault \in VerifyFaults :
          OTPHandlerVerifyOTP(rq[1], rq[2], otp, fault)
    \/ \E token \in Tokens, id \in PathIDs, fault \in DeleteFaults :
          DeleteCustomerRequest(token, id, fault)
    \/ Tick

SpecHTTP == InitHTTP /\ [][NextHTTP]_vars

(***************************************************************************)
(* Properties of OTPService, checked under Spec                            *)
(***************************************************************************)
\* The account the pair (target, targetType) names exists.
AccountExists(target, targetType) ==
    IF targetType = OTPTargetTrainer
    THEN target \in DOMAIN trainers
    ELSE target \in DOMAIN customers

\* The active flag of the account the pair names (FALSE when there is none).
ActiveIn(tr, cu, target, targetType) ==
    IF targetType = OTPTargetTrainer
    THEN target \in DOMAIN tr /\ tr[target].IsActive
    ELSE target \in DOMAIN cu /\ cu[target].IsActive

\* A durable record of the code exists for the target.
DurableRecord(target, code) ==
    \E rec \in otps : rec.UserID = target /\ rec.Code = code

\* C1: GenerateOTP(target, type) returning code c for an existing trainer's
\* or customer's ID, followed immediately by VerifyOTP(target, type, c) with
\* every store call succeeding, returns success and leaves the account active.
C1_RoundTrip ==
    [][ ( /\ last.op = "GenerateOTP" /\ last.res = "ok"
          /\ last'.op = "VerifyOTP"
          /\ last'.target = last.target /\ last'.tt = last.tt
          /\ last'.otp = last.otp
          /\ AccountExists(last.target, last.tt)
          /\ last'.failed = "none" )
        => ( /\ last'.res = "ok"
             /\ ActiveIn(trainers', customers', last.target, last.tt) ) ]_vars

\* C2: once VerifyOTP has returned success for (target, targetType, code), a
\* later VerifyOTP with the same triple, with no GenerateOTP for the target in
\* between, fails with InvalidOTP.
C2_AtMostOnce ==
    [][ ( /\ last'.op = "VerifyOTP"
          /\ <<last'.target, last'.tt, last'.otp>> \in consumed
          /\ last'.failed = "none" )
        => last'.res = "models.ErrInvalidOTP" ]_vars

\* C4: GenerateOTP for a target whose rate-limit marker is present fails with
\* RateLimitExceeded and no other error.
C4_RateLimitExceeded ==
    [][ ( /\ last'.op = "GenerateOTP"
          /\ RedisExists(redis, RateLimitKey(last'.target))
          /\ last'.failed = "none" )
        => last'.res = "service.ErrRateLimitExceeded" ]_vars

\* C5: the rate-limit marker a successful GenerateOTP writes always expires,
\* whatever the configured window: a marker in the cache has a remaining
\* lifetime, of at most the window, after which GenerateOTP succeeds again.
C5_MarkerExpires ==
    \A rq \in requests :
        RedisExists(redis, RateLimitKey(rq[1]))
            => redis[RateLimitKey(rq[1])].ttl # NoTTL

\* C6: a GenerateOTP call rejected by the rate limit returns no code and
\* writes nothing: every cache entry (codes, markers and their remaining
\* lifetimes) and every record is as before the call.
C6_RejectedWritesNothing ==
    [][ ( /\ last'.op = "GenerateOTP"
          /\ RedisExists(redis, RateLimitKey(last'.target))
          /\ last'.failed = "none" )
        => ( /\ last'.res # "ok" /\ last'.otp = ""
             /\ redis' = redis
             /\ otps' = otps /\ trainers' = trainers /\ customers' = customers )
      ]_vars

\* A GenerateOTP call was rejected while a code was stored for its pair.
C6_Witness ==
    /\ last.op = "GenerateOTP" /\ last.failed = "none" /\ last.res # "ok"
    /\ RedisExists(redis, RateLimitKey(last.target))
    /\ RedisExists(redis, OTPKey(last.tt, last.target))

\* C7: when the Exists call of the rate-limit check returns an error,
\* GenerateOTP does not fail because of it: it issues and returns a code.
C7_FailOpenIssuance ==
    (last.op = "GenerateOTP" /\ last.failed = "Exists")
        => (last.res = "ok" /\ last.otp # "")

\* C9: after Redis has evicted a code by TTL, VerifyOTP with that code never
\* succeeds: it fails with OTPExpired when a durable record of the code
\* exists and with InvalidOTP when none does.
C9_Expiry ==
    [][ ( /\ last'.op = "VerifyOTP" /\ last'.failed = "none"
          /\ \E e \in expired :
                /\ e[1] = last'.target /\ e[2] = last'.tt
                /\ (e[3] = last'.otp \/ e[3] = Marshal(last'.otp)) )
        => ( /\ last'.res # "ok"
             /\ DurableRecord(last'.target, last'.otp)
                    => last'.res = "models.ErrOTPExpired"
             /\ ~DurableRecord(last'.target, last'.otp)
                    => last'.res = "models.ErrInvalidOTP" ) ]_vars

C12_ActivationFailed ==
    [][ ( /\ last'.op = "VerifyOTP"
          /\ RedisGet(redis, OTPKey(last'.tt, last'.target)) # ""
          /\ RedisGet(redis, OTPKey(last'.tt, last'.target)) = last'.otp
          /\ IsUUID(last'.target)
          /\ last'.failed \notin {"Get", "Delete"}
          /\ last'.res # "ok" )
        => last'.res = "service.ErrActivationFailed" ]_vars

\* C13: a failing Delete of the matched code is best-effort cleanup: the
\* call's result and the accounts it leaves are those of the same call with
\* the Delete succeeding.
C13_CleanupBestEffort ==
    [][ ( last'.op = "VerifyOTP" /\ last'.failed = "Delete" )
        => LET clean == verifyOTP(redis, trainers, customers, last'.target,
                                  last'.tt, last'.otp, "none")
           IN  /\ last'.res = clean.res
               /\ trainers' = clean.trainers
               /\ customers' = clean.customers ]_vars

\* C15: with a non-empty override configured, every successful GenerateOTP
\* returns the override, and a VerifyOTP succeeds only when the submitted
\* code equals the override.
C15_OverrideOnly ==
    [][ config.DefaultOTP # ""
        => ( /\ (last'.op = "GenerateOTP" /\ last'.res = "ok")
                    => last'.otp = config.DefaultOTP
             /\ (last'.op = "VerifyOTP" /\ last'.res = "ok")
                    => last'.otp = config.DefaultOTP ) ]_vars

\* C16: for every environment with OTP_DEFAULT unset or empty the loaded
\* configuration has an empty override, and GenerateOTP then returns a
\* random digit string.
C16_EmptyOverrideDisabled ==
    /\ \A env \in Envs :
          (env.OTP_DEFAULT = "" /\ config = LoadConfig(env))
              => config.DefaultOTP = ""
    /\ (config.DefaultOTP = "" /\ last.op = "GenerateOTP" /\ last.res = "ok")
          => last.otp \in RandomDigits

\* C17: for a target that is a contact address, VerifyOTP(target, customer,
\* code) with the code stored for the pair returns success.
C17_ContactAddressTarget ==
    [][ ( /\ last'.op = "VerifyOTP" /\ last'.failed = "none"
          /\ ~IsUUID(last'.target) /\ last'.tt = OTPTargetCustomer
          /\ RedisGet(redis, OTPKey(last'.tt, last'.target)) # ""
          /\ RedisGet(redis, OTPKey(last'.tt, last'.target)) = last'.otp )
        => last'.res = "ok" ]_vars

\* C23: no VerifyOTP call ends with the code consumed and the account still
\* inactive: a call that deleted the cached code of its pair leaves the
\* account it names active.
C23_ConsumedImpliesActive ==
    [][ ( /\ last'.op = "VerifyOTP"
          /\ RedisExists(redis, OTPKey(last'.tt, last'.target))
          /\ ~RedisExists(redis', OTPKey(last'.tt, last'.target)) )
        => ActiveIn(trainers', customers', last'.target, last'.tt) ]_vars

\* C25: a GenerateOTP call that returns an error leaves the cache as it was:
\* the same code entry and the same rate-limit marker for the target.
C25_ErrorLeavesCache ==
    [][ ( last'.op = "GenerateOTP" /\ last'.res # "ok" )
        => redis' = redis ]_vars

\* C26: VerifyOTP changes only records of the account class targetType
\* names: with trainer no customer record, with customer no trainer record,
\* with gym_owner neither.
C26_ActivationByClass ==
    [][ last'.op = "VerifyOTP"
        => ( /\ last'.tt = OTPTargetTrainer => customers' = customers
             /\ last'.tt = OTPTargetCustomer => trainers' = trainers
             /\ last'.tt = OTPTargetGymOwner
                    => (trainers' = trainers /\ customers' = customers) ) ]_vars

(***************************************************************************)
(* Properties of concurrent VerifyOTP calls, checked under SpecConc        *)
(***************************************************************************)
\* C3: of two concurrent VerifyOTP calls for the same target and type that
\* submit the same valid code (both read the stored code and find it equal
\* to theirs), exactly one returns success and the other fails with
\* InvalidOTP, however the reads and deletes interleave.
C3_ExactlyOneWins ==
    LET a == procs[1]
        b == procs[2]
    IN  ( /\ a.pc = "done" /\ b.pc = "done"
          /\ a.target = b.target /\ a.tt = b.tt /\ a.otp = b.otp
          /\ a.stored = a.otp /\ b.stored = b.otp
          /\ {a.res, b.res} \cap {"RedisError", "DBError"} = {} )
        => {a.res, b.res} = {"ok", "models.ErrInvalidOTP"}

(***************************************************************************)
(* Properties of redisRateLimiter, checked under SpecRL                    *)
(***************************************************************************)
\* C8: IsAllowed(key) returns true, for every key and every limit, whenever
\* the cache read it performs returns an error.
C8_IsAllowedFailsOpen ==
    (last.op = "IsAllowed" /\ last.failed = "Get") => last.res = "true"

\* IsAllowed returned true on a failed read for a key whose counter has
\* reached the limit.
C8_Witness ==
    /\ last.op = "IsAllowed" /\ last.failed = "Get" /\ last.res = "true"
    /\ Atoi(RedisGet(redis, limiter.prefix \o last.target)) >= limiter.limit
    /\ limiter.limit > 0

(***************************************************************************)
(* Properties of the verification entry points, checked under SpecGym      *)
(***************************************************************************)
\* The active flag of the account a verification call names.
AccountActive(target, targetType) ==
    IF targetType = OTPTargetGymOwner
    THEN target \in DOMAIN gymOwners /\ gymOwners[target].IsActive
    ELSE ActiveIn(trainers, customers, target, targetType)

\* C11: a verification entry point reports success only if the account the
\* call names has its active flag set and persisted.
C11_SuccessImpliesActive ==
    (last.op \in {"VerifyOTP", "GymOwnerVerifyOTP"} /\ last.res = "ok")
        => AccountActive(last.target, last.tt)

(***************************************************************************)
(* Properties of the durable store, checked under SpecAuth                 *)
(***************************************************************************)
\* C14: when the cache holds no entry for the pair of the call but the otps
\* table holds an unused, unexpired record of the target with the submitted
\* code, a verification with that code does not fail on the cache miss: it
\* consults the table and succeeds.
C14_CacheMissFallback ==
    [][ ( /\ last'.op \in {"VerifyOTP", "AuthVerifyOTP"}
          /\ last'.failed = "none"
          /\ ~RedisExists(redis, IF last'.op = "VerifyOTP"
                                 THEN OTPKey(last'.tt, last'.target)
                                 ELSE AuthKey(last'.target, last'.tt))
          /\ \E o \in otps : /\ o.UserID = last'.target /\ o.Code = last'.otp
                             /\ ~o.Used /\ o.left > 0 )
        => last'.res = "ok" ]_vars

\* C18: at most one code verifies for a pair: a verification that succeeds
\* was made with the code issued last for the pair, never with an earlier
\* code that has not reached its expiry.
C18_OnlyLatestCode ==
    [][ ( last'.op = "AuthVerifyOTP" /\ last'.res = "ok" )
        => \A o \in otps :
              ( /\ o.UserID = last'.target /\ o.Type = last'.tt
                /\ \A q \in otps :
                      (q.UserID = o.UserID /\ q.Type = o.Type) => q.ID <= o.ID )
              => o.Code = last'.otp ]_vars

\* C19: the mark-used operation changes only records whose used flag is
\* false: an attempt on a record already used is observable as not having
\* taken effect.
C19_MarkUsedOnce ==
    [][ ( /\ last'.op = "MarkAsUsed" /\ last'.failed = "none"
          /\ \E o \in otps : Itoa(o.ID) = last'.target /\ o.Used )
        => last'.res # "ok" ]_vars

\* C20: for every record at or after its expiry instant, IsValid() is false
\* and the valid-record lookup does not return the record.
C20_InvalidAtExpiry ==
    \A o \in otps :
        o.left <= 0 => ( /\ ~IsValid(o)
                         /\ o \notin GetByUserIDAndType(otps, o.UserID, o.Type) )

\* C21: whenever the cache write of the code fails during issuance, the call
\* returns an error and no code.
C21_IssuanceFailsClosed ==
    (last.op \in {"GenerateOTP", "AuthGenerateOTP"} /\ last.failed \in {"SetOTP", "Set"})
        => (last.res # "ok" /\ last.otp = "")

\* C22: whenever auth.VerifyOTP returns true, the cache entry of the user and
\* type is deleted and the matching records are marked used, so the same
\* call repeated returns false; also when the update in markOTPAsUsed fails.
C22_ConsumeOnSuccess ==
    [][ ( /\ last'.op = "AuthVerifyOTP" /\ last'.res = "ok"
          /\ last'.failed \in {"none", "Update"} )
        => ( /\ ~RedisExists(redis', AuthKey(last'.target, last'.tt))
             /\ \A o \in otps' :
                   (o.UserID = last'.target /\ o.Code = last'.otp /\ o.Type = last'.tt)
                       => o.Used
             /\ authVerifyOTP(redis', otps', last'.target, last'.otp, last'.tt,
                              "none").res # "ok" ) ]_vars

\* C27: a verification call returns success only if a code is stored for the
\* subject when the call is made and equals the submitted value; with no code
\* stored, no submitted value, the empty string included, is accepted.
C27_NoVerificationWithoutIssuance ==
    [][ ( last'.op \in {"VerifyOTP", "GymOwnerVerifyOTP"} /\ last'.res = "ok" )
        => ( /\ RedisExists(redis, OTPKey(last'.tt, last'.target))
             /\ redis[OTPKey(last'.tt, last'.target)].val = last'.otp ) ]_vars

\* C28: for a limiter with limit >= 1, a key that is refused (its counter has
\* reached the limit) becomes allowed again after one window without
\* increments: its counter has a remaining lifetime of at most the window,
\* also when an Expire call inside Increment failed.
C28_CounterExpires ==
    \A key \in LimiterKeys :
        ( /\ limiter.limit >= 1
          /\ RedisExists(redis, limiter.prefix \o key)
          /\ Atoi(RedisGet(redis, limiter.prefix \o key)) >= limiter.limit )
        => redis[limiter.prefix \o key].ttl \in 1..limiter.window

(***************************************************************************)
(* Properties of concurrent GenerateOTP calls, checked under SpecConcGen   *)
(***************************************************************************)
\* C24: of two GenerateOTP calls for the same target that interleave within
\* one cooldown window, at most one returns a code.
C24_OneCodePerWindow ==
    ~ ( /\ procs[1].pc = "done" /\ procs[2].pc = "done"
        /\ procs[1].target = procs[2].target
        /\ procs[1].res = "ok" /\ procs[2].res = "ok" )

(***************************************************************************)
(* Properties of the HTTP handlers, checked under SpecHTTP                 *)
(***************************************************************************)
\* C29: when OTPService.VerifyOTP fails because the submitted code differs
\* from the stored one, POST /otp/verify answers 400 "Invalid OTP"; when it
\* fails because no code is stored it answers 400 "OTP has expired".
C29_ErrorMapping ==
    last.op = "OTPHandler.VerifyOTP"
        => ( /\ last.res = "models.ErrInvalidOTP" => last.status = "400 Invalid OTP"
             /\ last.res = "models.ErrOTPExpired"
                    => last.status = "400 OTP has expired" )

\* C30: a DELETE /customers/:id request with a valid token for an existing
\* customer, with no repository failure, never fails on a missing request
\* local, and deletes the customer exactly when the token's user is the
\* customer in the path.
C30_OwnerDeletes ==
    [][ ( /\ last'.op = "DeleteCustomer"
          /\ last'.token = "valid"
          /\ last'.failed = "none"
          /\ last'.target \in DOMAIN customers )
        => ( /\ last'.status # "500 panic: interface conversion"
             /\ last'.target \notin DOMAIN customers'
                    <=> last'.user = last'.target ) ]_vars

====
